---- MODULE Spec2Model ----
(***************************************************************************)
(* TimerSentinel (src/src/timer_sentinel/core.py): an execution-time       *)
(* watchdog.  The model holds the Sentinel instances (their configuration  *)
(* and the two transient fields _timer and _total_time), the monotonic     *)
(* clock perf_counter reads, the logger's records, the callback's          *)
(* invocations and the callers that drive the instances through the three  *)
(* usage protocols (manual calls, the with-block, the decorator for sync   *)
(* and async functions).                                                   *)
(*                                                                         *)
(* Time is counted in whole clock ticks.  Python's None is written None    *)
(* for the numeric fields, NoneStr for strings and NoneKw for a keyword    *)
(* mapping.                                                                *)
(***************************************************************************)
EXTENDS Integers, Sequences, FiniteSets, TLC

VARIABLES sentinel, clock, log, calls, task, hist, last

vars == <<sentinel, clock, log, calls, task, hist, last>>

---------------------------------------------------------------------------
(* Bounds of the model. *)

MaxClock == 4
MaxLog == 2

---------------------------------------------------------------------------
(* Values of the program. *)

None == -1
NoneStr == "<None>"
NoneKw == {<<"<None>", "<None>">>}
EmptyKw == {}
SomeKw == {<<"name", "x">>, <<"value", "42">>}

DEFAULT_TIMER_NAME == "TimerSentinel"
DEFAULT_KEYWORD == "OVERTIME"
WARNING == 30
ERROR == 40

NoErr == "<no error>"
NotStarted == "RuntimeError: Timer not started"
NotEnded == "RuntimeError: Timer not ended"
CallbackError == "CallbackError"
WorkError == "ValueError"
CancelledError == "CancelledError"

(* The arguments the embedding application constructs Sentinels with: the  *)
(* threshold, the name and the callback vary freely; the keyword, the      *)
(* level, the callback's arguments and the identifier uuid4 draws are      *)
(* either all the defaults or all custom.                                  *)
Thresholds == {1, 2}
NameArgs == {NoneStr, "", "task"}
Callbacks == {NoneStr, "cb_ok", "cb_fail"}
Styles ==
    { [ keyword |-> DEFAULT_KEYWORD, level |-> WARNING, kw |-> NoneKw,
        id |-> "1a2b3c4d" ],
      [ keyword |-> "SLOW", level |-> ERROR, kw |-> SomeKw,
        id |-> "9f8e7d6c" ] }

(* The functions the application decorates, and what they return. *)
FuncNames == {"f", "g"}
Values == {"v1", "v2"}

Return(v) == [kind |-> "return", val |-> v]
Raise(e) == [kind |-> "raise", val |-> e]

---------------------------------------------------------------------------
(* TimerSentinel.__init__ *)

(* Python truthiness of an optional string: None and "" are falsy. *)
FalsyStr(s) == s = NoneStr \/ s = ""

(* A default taken only when no name at all was given. *)
NameOrDefaultNoneOnly(name) == IF name = NoneStr THEN DEFAULT_TIMER_NAME ELSE name

(* name or DEFAULT_TIMER_NAME *)
NameOrDefault(name) == IF FalsyStr(name) THEN DEFAULT_TIMER_NAME ELSE name

(* callback_args or {} *)
KwOrEmpty(kw) == IF kw = NoneKw \/ kw = EmptyKw THEN EmptyKw ELSE kw

init(threshold, name, keyword, level, callback, callback_args, eid) ==
    [ threshold          |-> threshold,
      use_func_name      |-> FalsyStr(name),
      name               |-> NameOrDefault(name),
      on_exceed_keyword  |-> keyword,
      on_exceed_level    |-> level,
      on_exceed_callback |-> callback,
      callback_args      |-> KwOrEmpty(callback_args),
      execution_id       |-> eid,
      timer              |-> None,
      total_time         |-> None ]

Sentinels ==
    { init(th, n, st.keyword, st.level, cb, st.kw, st.id) :
        th \in Thresholds, n \in NameArgs, cb \in Callbacks, st \in Styles }

(* The argument lists of the constructor, and the instance each builds. *)
Args ==
    [ threshold : Thresholds, name : NameArgs, callback : Callbacks,
      style : Styles ]

Construct(a) ==
    init(a.threshold, a.name, a.style.keyword, a.style.level, a.callback,
         a.style.kw, a.style.id)

---------------------------------------------------------------------------
(* The methods, as transformers of a world w: the instance self (with its  *)
(* index id), the clock reading now, the logger's records, the callback's  *)
(* invocations, the events ev of the running call and the exception err    *)
(* that is propagating (NoErr when none).                                  *)

(* A world whose instance state is shared by all instances. *)
WorldShared(i) ==
    [ id |-> i, self |-> sentinel[1], now |-> clock, log |-> log,
      calls |-> calls, ev |-> <<>>, err |-> NoErr ]

World(i) ==
    [ id |-> i, self |-> sentinel[i], now |-> clock, log |-> log,
      calls |-> calls, ev |-> <<>>, err |-> NoErr ]

Event(w, e) == [w EXCEPT !.ev = Append(@, e)]

(* A start() that keeps the mark of an earlier start(). *)
startKeepsFirst(w) ==
    IF w.self.timer = None
    THEN [Event(w, "start") EXCEPT !.self.timer = w.now]
    ELSE Event(w, "start")

(* A start() that also forgets the elapsed value of the cycle before. *)
startClearsElapsed(w) ==
    [Event(w, "start") EXCEPT !.self.timer = w.now, !.self.total_time = None]

(* self._timer = time.perf_counter() *)
start(w) ==
    [Event(w, "start") EXCEPT !.self.timer = w.now]

(* time.perf_counter() - self._timer *)
Elapsed(now, timer) == now - timer

(* end() without its check that start() was called. *)
endUnchecked(w) ==
    [Event(w, "end") EXCEPT !.self.total_time = Elapsed(w.now, w.self.timer)]

(* An end() that clears the start mark it has used. *)
endClearsMark(w) ==
    IF w.self.timer = None
    THEN [Event(w, "end") EXCEPT !.err = NotStarted]
    ELSE [Event(w, "end") EXCEPT
            !.self.total_time = Elapsed(w.now, w.self.timer),
            !.self.timer = None]

end(w) ==
    IF w.self.timer = None
    THEN [Event(w, "end") EXCEPT !.err = NotStarted]
    ELSE [Event(w, "end") EXCEPT
            !.self.total_time = Elapsed(w.now, w.self.timer)]

(* A threshold test that also triggers on equality. *)
ExceededOrEqual(total_time, threshold) == total_time >= threshold

(* self._total_time > self.threshold *)
Exceeded(total_time, threshold) == total_time > threshold

(* A message whose keyword is the default whatever was configured. *)
MessageDefaultKeyword(self) ==
    [ keyword   |-> DEFAULT_KEYWORD,
      name      |-> self.name,
      id        |-> self.execution_id,
      elapsed   |-> self.total_time,
      threshold |-> self.threshold ]

(* The message of the record: the f-string's fields, in its order. *)
Message(self) ==
    [ keyword   |-> self.on_exceed_keyword,
      name      |-> self.name,
      id        |-> self.execution_id,
      elapsed   |-> self.total_time,
      threshold |-> self.threshold ]

(* self._logger.log(self._on_exceed_level, msg) *)
LogRecord(w) ==
    [ level |-> w.self.on_exceed_level, msg |-> Message(w.self), inst |-> w.id ]

Emit(w) ==
    [Event(w, "log") EXCEPT !.log = Append(@, LogRecord(w))]

(* A call of the callback without its arguments. *)
NoCallbackArgs(self) == EmptyKw

(* self._on_exceed_callback( **self._callback_args ) *)
CallbackArgs(self) == self.callback_args

(* A call of the callback that catches what the callback raises. *)
InvokeCallbackCaught(w) ==
    LET c == [ callback |-> w.self.on_exceed_callback,
               kwargs |-> CallbackArgs(w.self), inst |-> w.id ]
    IN  [Event(w, "callback") EXCEPT !.calls = Append(@, c)]

InvokeCallback(w) ==
    LET c == [ callback |-> w.self.on_exceed_callback,
               kwargs |-> CallbackArgs(w.self), inst |-> w.id ]
        w1 == [Event(w, "callback") EXCEPT !.calls = Append(@, c)]
    IN  IF w.self.on_exceed_callback = "cb_fail"
        THEN [w1 EXCEPT !.err = CallbackError]
        ELSE w1

(* if self._on_exceed_callback: *)
HasCallback(self) == self.on_exceed_callback # NoneStr

Notify(w) ==
    IF HasCallback(w.self) THEN InvokeCallback(w) ELSE w

(* report() without its check that end() was called. *)
reportUnchecked(w) ==
    IF Exceeded(w.self.total_time, w.self.threshold)
    THEN Notify(Emit(Event(w, "report")))
    ELSE Event(w, "report")

(* A report() that consumes the elapsed value it has reported. *)
reportConsumes(w) ==
    IF w.self.total_time = None
    THEN [Event(w, "report") EXCEPT !.err = NotEnded]
    ELSE IF Exceeded(w.self.total_time, w.self.threshold)
         THEN [Notify(Emit(Event(w, "report"))) EXCEPT !.self.total_time = None]
         ELSE Event(w, "report")

report(w) ==
    IF w.self.total_time = None
    THEN [Event(w, "report") EXCEPT !.err = NotEnded]
    ELSE IF Exceeded(w.self.total_time, w.self.threshold)
         THEN Notify(Emit(Event(w, "report")))
         ELSE Event(w, "report")

(* A cleanup that reports before it ends. *)
CleanupReportFirst(w) ==
    LET w1 == report(w)
    IN  IF w1.err # NoErr THEN w1 ELSE end(w1)

(* self.end(); self.report(): report() is not reached when end() raises. *)
Cleanup(w) ==
    LET w1 == end(w)
    IN  IF w1.err # NoErr THEN w1 ELSE report(w1)

(* An __exit__ that times and reports only a block that did not raise. *)
ContextExitOnSuccess(w, work) ==
    IF work.kind = "raise" THEN w ELSE Cleanup(w)

(* __exit__(exc_type, exc_val, exc_tb): the same whatever the block did. *)
ContextExit(w, work) == Cleanup(w)

(* A cleanup that runs for a return or an Exception but not for a          *)
(* cancellation.                                                           *)
AsyncFinallyExceptException(w, work) ==
    IF work = Raise(CancelledError) THEN w ELSE Cleanup(w)

(* An async wrapper that times and reports only an await that returned. *)
AsyncFinallyOnReturn(w, work) ==
    IF work.kind = "raise" THEN w ELSE Cleanup(w)

(* The async wrapper's finally clause: the same however the await ended.   *)
AsyncFinally(w, work) == Cleanup(w)

(* A try/finally that loses the value the protected code returned. *)
FinallyDropsValue(work, err) ==
    IF err # NoErr THEN Raise(err)
    ELSE IF work.kind = "return" THEN Return(NoneStr) ELSE work

(* What the caller of a try/finally (or of a with-block) observes: the     *)
(* exception the cleanup raised when it raised one, otherwise what the     *)
(* protected code returned or raised.                                      *)
Finally(work, err) ==
    IF err # NoErr THEN Raise(err) ELSE work

(* A wrapper that takes the function's name whatever name was given. *)
SetNameAlways(w, func) ==
    [Event(w, "name") EXCEPT !.self.name = func]

(* if self._use_func_name: self.name = func.__name__ *)
SetName(w, func) ==
    IF w.self.use_func_name
    THEN [Event(w, "name") EXCEPT !.self.name = func]
    ELSE w

(* The wrapper up to the call of func. *)
WrapperEntry(w, func) == Event(start(SetName(w, func)), "call")

---------------------------------------------------------------------------
(* The callers. *)

IdleTask ==
    [ pc |-> "idle", inst |-> 0, func |-> NoneStr, work |-> Return(NoneStr),
      result |-> Return(NoneStr), trace |-> <<>>, first |-> FALSE,
      began |-> None ]

(* What has happened to an instance so far: start() was called, end()      *)
(* completed, name changed its value, a wrapper of it was invoked; the     *)
(* name it was constructed with and the instance as constructed (built);   *)
(* the instant of the latest start() call                                  *)
(* (started_at), the time from the latest start() before it to the latest  *)
(* completed end() (duration), how many report() calls found a duration   *)
(* above the threshold (over), whether a start() has been followed by no   *)
(* completed end() yet (open), and how many records the latest report()    *)
(* emitted if one found an elapsed value since the latest start() or end() *)
(* (decided).                                                              *)
NoHist ==
    [ started |-> FALSE, ended |-> FALSE, renamed |-> FALSE,
      invoked |-> FALSE, name_arg |-> NoneStr,
      built |-> init(1, NoneStr, DEFAULT_KEYWORD, WARNING, NoneStr, NoneKw, ""),
      started_at |-> None, duration |-> None, over |-> 0, open |-> FALSE,
      decided |-> None ]

WrapperCalls == {"sync_call", "async_call"}

(* Whether call e was made in the events ev. *)
Has(ev, e) == \E k \in 1..Len(ev) : ev[k] = e

(* hist after a step on an instance that was self, with history h, that    *)
(* is operation op and leaves world w.                                     *)
Track(h, self, op, w) ==
    LET starts  == Has(w.ev, "start")
        ends    == Has(w.ev, "end") /\ w.err # NotStarted
        reports == Has(w.ev, "report") /\ (h.ended \/ ends)
        dur     == IF ends THEN w.now - h.started_at ELSE h.duration
    IN  [ started    |-> h.started \/ starts,
          ended      |-> h.ended \/ ends,
          renamed    |-> h.renamed \/ w.self.name # self.name,
          invoked    |-> h.invoked \/ op \in WrapperCalls,
          name_arg   |-> h.name_arg,
          built      |-> h.built,
          started_at |-> IF starts THEN w.now ELSE h.started_at,
          duration   |-> dur,
          over       |-> IF reports /\ dur > self.threshold
                         THEN h.over + 1 ELSE h.over,
          open       |-> IF ends THEN FALSE ELSE starts \/ h.open,
          decided    |-> IF reports THEN Len(w.log) - Len(log)
                         ELSE IF starts \/ ends THEN None ELSE h.decided ]

(* The step of task t on instance i that is operation op and leaves world  *)
(* w and the task as tr; last describes the step.                          *)
Commit(t, i, op, w, tr) ==
    /\ Len(w.log) <= MaxLog
    /\ sentinel' = [sentinel EXCEPT ![i] = w.self]
    /\ log' = w.log
    /\ calls' = w.calls
    /\ task' = [task EXCEPT ![t] = tr]
    /\ hist' = [hist EXCEPT ![i] =
                  Track(@, sentinel[i], op, w)]
    /\ last' = [ task |-> t, inst |-> i, op |-> op, ev |-> w.ev,
                 err |-> w.err, pre |-> sentinel[i], prehist |-> hist[i],
                 nlog |-> Len(log), ncalls |-> Len(calls) ]
    /\ UNCHANGED clock

Outcome(w) == IF w.err # NoErr THEN Raise(w.err) ELSE Return(NoneStr)

ManualCall(t, i, op, w) ==
    /\ task[t].pc = "idle"
    /\ Commit(t, i, op, w,
              [IdleTask EXCEPT !.inst = i, !.result = Outcome(w), !.trace = w.ev])

(* timer.start() *)
Start(t, i) == ManualCall(t, i, "start", start(World(i)))

(* timer.end() *)
End(t, i) == ManualCall(t, i, "end", end(World(i)))

(* timer.report() *)
Report(t, i) == ManualCall(t, i, "report", report(World(i)))

(* with timer: ...   __enter__ *)
Enter(t, i) ==
    /\ task[t].pc = "idle"
    /\ LET w == Event(start(World(i)), "call")
       IN  Commit(t, i, "enter", w,
                  [IdleTask EXCEPT !.pc = "block", !.inst = i, !.trace = w.ev,
                                   !.began = clock])

(* The block completes (normally or raising) and __exit__ runs. *)
Exit(t, work) ==
    /\ task[t].pc = "block"
    /\ LET i == task[t].inst
           w == ContextExit(Event(World(i), work.kind), work)
       IN  Commit(t, i, "exit", w,
                  [task[t] EXCEPT !.pc = "idle", !.work = work,
                                  !.result = Finally(work, w.err),
                                  !.trace = @ \o w.ev])

(* The sync wrapper is called: name, start(), then func runs. *)
SyncCall(t, i, func) ==
    /\ task[t].pc = "idle"
    /\ LET w == WrapperEntry(World(i), func)
       IN  Commit(t, i, "sync_call", w,
                  [IdleTask EXCEPT !.pc = "sync", !.inst = i, !.func = func,
                                   !.trace = w.ev,
                                   !.first = ~hist[i].invoked,
                                   !.began = clock])

(* func returns or raises; the finally clause runs. *)
SyncReturn(t, work) ==
    /\ task[t].pc = "sync"
    /\ LET i == task[t].inst
           w == Cleanup(Event(World(i), work.kind))
       IN  Commit(t, i, "sync_return", w,
                  [task[t] EXCEPT !.pc = "idle", !.work = work,
                                  !.result = Finally(work, w.err),
                                  !.trace = @ \o w.ev])

(* The async wrapper is called: name, start(), then func is awaited. *)
AsyncCall(t, i, func) ==
    /\ task[t].pc = "idle"
    /\ LET w == WrapperEntry(World(i), func)
       IN  Commit(t, i, "async_call", w,
                  [IdleTask EXCEPT !.pc = "async", !.inst = i, !.func = func,
                                   !.trace = w.ev,
                                   !.first = ~hist[i].invoked,
                                   !.began = clock])

(* The awaited func returns, raises or is cancelled; the finally runs. *)
AsyncReturn(t, work) ==
    /\ task[t].pc = "async"
    /\ LET i == task[t].inst
           w == AsyncFinally(Event(World(i), work.kind), work)
       IN  Commit(t, i, "async_return", w,
                  [task[t] EXCEPT !.pc = "idle", !.work = work,
                                  !.result = Finally(work, w.err),
                                  !.trace = @ \o w.ev])

(* Time passes. *)
Tick ==
    /\ clock < MaxClock
    /\ clock' = clock + 1
    /\ UNCHANGED <<sentinel, log, calls, task, hist, last>>

BlockOutcomes == {Return(NoneStr), Raise(WorkError)}
SyncOutcomes == {Return(v) : v \in Values} \cup {Raise(WorkError)}
AsyncOutcomes == SyncOutcomes \cup {Raise(CancelledError)}

NoLast ==
    [ task |-> 0, inst |-> 0, op |-> "init", ev |-> <<>>, err |-> NoErr,
      pre |-> init(1, NoneStr, DEFAULT_KEYWORD, WARNING, NoneStr, NoneKw, ""),
      prehist |-> NoHist, nlog |-> 0, ncalls |-> 0 ]

(* Callers T and instances I, each constructed with arguments of A. *)
InitWith(T, I, A) ==
    /\ \E a \in [I -> A] :
          /\ sentinel = [i \in I |-> Construct(a[i])]
          /\ hist = [i \in I |-> [NoHist EXCEPT !.name_arg = a[i].name,
                                                 !.built = Construct(a[i])]]
    /\ clock = 0
    /\ log = <<>>
    /\ calls = <<>>
    /\ task = [t \in T |-> IdleTask]
    /\ last = NoLast

(* One caller and one instance, constructed with a name or with none. *)
ArgsSpec == { a \in Args : a.name # "" }

Init == InitWith({1}, {1}, ArgsSpec)

Next ==
    \/ Tick
    \/ \E t \in DOMAIN task, i \in DOMAIN sentinel : Start(t, i)
    \/ \E t \in DOMAIN task, i \in DOMAIN sentinel : End(t, i)
    \/ \E t \in DOMAIN task, i \in DOMAIN sentinel : Report(t, i)
    \/ \E t \in DOMAIN task, i \in DOMAIN sentinel : Enter(t, i)
    \/ \E t \in DOMAIN task, work \in BlockOutcomes : Exit(t, work)
    \/ \E t \in DOMAIN task, i \in DOMAIN sentinel, func \in FuncNames :
          SyncCall(t, i, func)
    \/ \E t \in DOMAIN task, work \in SyncOutcomes : SyncReturn(t, work)
    \/ \E t \in DOMAIN task, i \in DOMAIN sentinel, func \in FuncNames :
          AsyncCall(t, i, func)
    \/ \E t \in DOMAIN task, work \in AsyncOutcomes : AsyncReturn(t, work)

Spec == Init /\ [][Next]_vars

(* Independent instances: two callers, each decorating a function of its   *)
(* own with a Sentinel of its own (constructed without a name, with the    *)
(* default keyword and level, with or without a callback), their async     *)
(* invocations interleaved.                                                *)
ArgsIso ==
    { a \in Args : /\ a.name = NoneStr
                   /\ a.callback # "cb_fail"
                   /\ a.style.keyword = DEFAULT_KEYWORD }

IsoFunc(t) == IF t = 1 THEN "f" ELSE "g"
IsoOutcomes == {Return("v1")}

InitIso == InitWith({1, 2}, {1, 2}, ArgsIso)

NextIso ==
    \/ Tick
    \/ \E t \in DOMAIN task : AsyncCall(t, t, IsoFunc(t))
    \/ \E t \in DOMAIN task, work \in IsoOutcomes : AsyncReturn(t, work)

SpecIso == InitIso /\ [][NextIso]_vars

(* A shared instance: two callers whose invocations of one async wrapped   *)
(* function f overlap, all through the same Sentinel (constructed without  *)
(* a name, with the default keyword and level, with any callback).         *)
SharedTasks == {1, 2}
SharedFunc == "f"
ArgsShared ==
    { a \in Args : a.name = NoneStr /\ a.style.keyword = DEFAULT_KEYWORD }
SharedOutcomes == {Return(v) : v \in Values} \cup {Raise(WorkError)}

InitShared == InitWith(SharedTasks, {1}, ArgsShared)

NextShared ==
    \/ Tick
    \/ \E t \in DOMAIN task : AsyncCall(t, 1, SharedFunc)
    \/ \E t \in DOMAIN task, work \in SharedOutcomes : AsyncReturn(t, work)

SpecShared == InitShared /\ [][NextShared]_vars

---------------------------------------------------------------------------
(* What the last step did. *)

(* The instance the last step acted on, after it and before it. *)
Self == sentinel[last.inst]
Pre == last.pre

Acted == last.op # "init"

(* The last step called report(), end(). *)
ReportCalled == Acted /\ Has(last.ev, "report")
EndCalled == Acted /\ Has(last.ev, "end")

(* The elapsed value the report() of the last step found: the field as it  *)
(* was for a manual report(), the field end() left in a cleanup.           *)
ReportedElapsed ==
    IF last.op = "report" THEN Pre.total_time ELSE Self.total_time

(* The records and callback invocations the last step added. *)
Logged == Len(log) - last.nlog
Called == Len(calls) - last.ncalls

(* What the caller of the last step observed. *)
Observed == task[last.task].result

---------------------------------------------------------------------------
(* C1: every report() call made when elapsed is present emits exactly one  *)
(* log record if elapsed > threshold and none if elapsed <= threshold; in  *)
(* particular elapsed equal to threshold emits nothing.                    *)
C1_LogIffExceeded ==
    (ReportCalled /\ ReportedElapsed # None) =>
        /\ ReportedElapsed > Self.threshold => Logged = 1
        /\ ReportedElapsed <= Self.threshold => Logged = 0

(* A report() on elapsed equal to the threshold that emitted nothing,      *)
(* after an earlier report() of the instance had emitted a record.         *)
C1_Witness ==
    /\ ReportCalled
    /\ ReportedElapsed = Self.threshold
    /\ Logged = 0
    /\ Len(log) = 1

(* C2: end() on an instance on which start() was never called fails with   *)
(* 'Timer not started' and changes nothing: elapsed and start_mark stay    *)
(* absent, no record is logged and no callback is invoked.                 *)
C2_EndBeforeStart ==
    (EndCalled /\ ~last.prehist.started) =>
        /\ last.err = NotStarted
        /\ Observed = Raise(NotStarted)
        /\ Self = Pre
        /\ Self.timer = None
        /\ Self.total_time = None
        /\ Logged = 0
        /\ Called = 0

(* end() was called, some time after construction, before any start().     *)
C2_Witness ==
    /\ last.op = "end"
    /\ ~last.prehist.started
    /\ clock > 0
    /\ Observed = Raise(NotStarted)

(* C3: report() on an instance on which end() never completed, whether or  *)
(* not start() was called, fails with 'Timer not ended', logs nothing,     *)
(* invokes no callback and changes no field.                               *)
C3_ReportBeforeEnd ==
    (ReportCalled /\ last.op = "report" /\ ~last.prehist.ended) =>
        /\ last.err = NotEnded
        /\ Observed = Raise(NotEnded)
        /\ Self = Pre
        /\ Logged = 0
        /\ Called = 0

(* report() was called after start() and before any end(), longer after    *)
(* the start than any threshold.                                           *)
C3_Witness ==
    /\ last.op = "report"
    /\ last.prehist.started
    /\ ~last.prehist.ended
    /\ clock - Self.timer > 2
    /\ Observed = Raise(NotEnded)


---------------------------------------------------------------------------
(* The calls of one use of an instance by task t, in the order made:       *)
(* "call" is the protected code beginning, "return"/"raise" its finishing. *)

IsStep(e) == e \in {"start", "call", "return", "raise", "end", "report"}
Steps(t) == SelectSeq(task[t].trace, IsStep)

(* Task t is in, or has completed, a wrapped invocation / a with-block. *)
Wrapped(t) == task[t].func # NoneStr
Scoped(t) == task[t].func = NoneStr /\ Has(task[t].trace, "call")
Completed(t) == task[t].pc = "idle" /\ Has(task[t].trace, "call")

(* Event a is directly followed by event b in ev. *)
Follows(ev, a, b) == \E k \in 1..(Len(ev) - 1) : ev[k] = a /\ ev[k + 1] = b

(* C4: every invocation of a wrapped function, sync or async, calls        *)
(* start() before f begins and, after f finishes by returning or raising,  *)
(* end() and then report(), each exactly once.                             *)
C4_WrapperOrder ==
    \A t \in DOMAIN task :
        Wrapped(t) =>
            IF task[t].pc = "idle"
            THEN Steps(t) = <<"start", "call", task[t].work.kind, "end", "report">>
            ELSE Steps(t) = <<"start", "call">>

(* An async wrapped invocation whose function raised has completed. *)
C4_Witness ==
    /\ last.op = "async_return"
    /\ task[last.task].work = Raise(WorkError)
    /\ Completed(last.task)

(* C5: entering a with-block calls start(); leaving it, normally or by an  *)
(* exception of the block, calls end() and then report(), and elapsed is   *)
(* present after the block.                                                *)
C5_BlockOrder ==
    \A t \in DOMAIN task :
        Scoped(t) =>
            IF task[t].pc = "idle"
            THEN /\ Steps(t) = <<"start", "call", task[t].work.kind, "end", "report">>
                 /\ sentinel[task[t].inst].total_time # None
            ELSE Steps(t) = <<"start", "call">>

(* A with-block that raised has been left. *)
C5_Witness ==
    /\ last.op = "exit"
    /\ task[last.task].work = Raise(WorkError)
    /\ Self.total_time # None

(* The callback of the instance task t used was invoked in t's use and     *)
(* failed.                                                                 *)
CallbackFailed(t) ==
    /\ Has(task[t].trace, "callback")
    /\ sentinel[task[t].inst].on_exceed_callback = "cb_fail"

(* C6 as claimed: under every configuration, whatever the callback does,   *)
(* the caller of a wrapped invocation or with-block observes exactly the   *)
(* value the work returned or the failure it raised.                       *)
C6_OutcomeUnaltered ==
    \A t \in DOMAIN task :
        Completed(t) => task[t].result = task[t].work

(* C6 as amended: the caller observes exactly the work's value or failure, *)
(* except when the on_exceed_callback fails in the over-threshold          *)
(* report(): then the caller observes the callback's failure in place of   *)
(* the work's value or failure.                                            *)
C6_OutcomeUnlessCallbackFails ==
    \A t \in DOMAIN task :
        Completed(t) =>
            task[t].result =
                IF CallbackFailed(t) THEN Raise(CallbackError) ELSE task[t].work

(* A wrapped function returned a value over threshold and the failing      *)
(* callback's exception reached the caller instead.                        *)
C6_Witness ==
    /\ last.op = "sync_return"
    /\ task[last.task].work = Return("v2")
    /\ CallbackFailed(last.task)
    /\ Observed = Raise(CallbackError)

(* C7: with a callback set, a report() on elapsed > threshold invokes it   *)
(* exactly once, in the same call, right after the log record, with        *)
(* exactly the configured callback_args; a report() on elapsed <=          *)
(* threshold does not invoke it.                                           *)
C7_CallbackOnExceed ==
    (ReportCalled /\ ReportedElapsed # None) =>
        IF Pre.on_exceed_callback # NoneStr /\ ReportedElapsed > Pre.threshold
        THEN /\ Called = 1
             /\ calls[Len(calls)].callback = Pre.on_exceed_callback
             /\ calls[Len(calls)].kwargs = Pre.callback_args
             /\ Logged = 1
             /\ Follows(last.ev, "log", "callback")
        ELSE Called = 0

(* The cleanup of an async wrapped invocation invoked the callback with    *)
(* the named arguments name and value.                                     *)
C7_Witness ==
    /\ last.op = "async_return"
    /\ Called = 1
    /\ calls[Len(calls)].kwargs = SomeKw

(* C8: a failure of the on_exceed_callback propagates out of report() to   *)
(* its caller; the callback is not invoked again, and the log record of    *)
(* that report() was emitted before it.                                    *)
C8_CallbackFailurePropagates ==
    (Acted /\ Has(last.ev, "callback") /\ Pre.on_exceed_callback = "cb_fail") =>
        /\ last.err = CallbackError
        /\ Observed = Raise(CallbackError)
        /\ Called = 1
        /\ Logged = 1
        /\ Follows(last.ev, "log", "callback")

(* The callback failed in the exit of a with-block that had itself raised. *)
C8_Witness ==
    /\ last.op = "exit"
    /\ task[last.task].work = Raise(WorkError)
    /\ Has(last.ev, "callback")
    /\ Observed = Raise(CallbackError)

(* C9: for a Sentinel constructed without a name, the first wrapped        *)
(* invocation sets name to the invoked function's name and no later        *)
(* invocation changes it: name changes value at most once.                 *)
C9_NameChangesOnce ==
    /\ (last.op \in WrapperCalls /\ Pre.use_func_name /\ ~last.prehist.invoked)
          => Self.name = task[last.task].func
    /\ (Acted /\ Self.name # Pre.name) => ~last.prehist.renamed

(* C10: the record of an over-threshold report() is at on_exceed_level and *)
(* carries the configured keyword, the execution_id and the name at the    *)
(* time of the report; for a wrapper without an explicit name that is the  *)
(* wrapped function's name, not the default, from the first invocation on. *)
C10_RecordContents ==
    (Acted /\ Logged = 1) =>
        LET r == log[Len(log)]
        IN  /\ r.level = Pre.on_exceed_level
            /\ r.msg.keyword = Pre.on_exceed_keyword
            /\ r.msg.id = Pre.execution_id
            /\ r.msg.name = Pre.name
            /\ (Wrapped(last.task) /\ Pre.use_func_name) =>
                  /\ r.msg.name = task[last.task].func
                  /\ r.msg.name # DEFAULT_TIMER_NAME

(* The first invocation of a wrapper without an explicit name logged a     *)
(* record with the custom keyword and level and the function's name.       *)
C10_Witness ==
    /\ last.op = "sync_return"
    /\ task[last.task].first
    /\ Pre.use_func_name
    /\ Logged = 1
    /\ log[Len(log)].msg.keyword = "SLOW"
    /\ log[Len(log)].level = ERROR
    /\ log[Len(log)].msg.name = "g"


---------------------------------------------------------------------------
(* The records instance i has logged. *)
IsOf(i, r) == r.inst = i
RecordsOf(i) == Len(SelectSeq(log, LAMBDA r : IsOf(i, r)))

(* C11: on one instance reused for sequential cycles each start()          *)
(* overwrites start_mark, each end() overwrites elapsed with the duration  *)
(* of its own cycle, and each report() decides on that elapsed: the        *)
(* instance has logged exactly as many records as reports found a cycle    *)
(* over threshold, so k such cycles give k records and an under-threshold  *)
(* cycle after an over-threshold one gives none.                           *)
C11_SequentialReuse ==
    \A i \in DOMAIN sentinel :
        /\ sentinel[i].timer = hist[i].started_at
        /\ sentinel[i].total_time = hist[i].duration
        /\ RecordsOf(i) = hist[i].over
        /\ (ReportCalled /\ last.inst = i /\ hist[i].ended) =>
              (Logged = 1 <=> hist[i].duration > sentinel[i].threshold)

(* The second cycle of an instance was under threshold and logged nothing  *)
(* after its first cycle had been over threshold and logged one record.    *)
C11_Witness ==
    /\ last.op = "sync_return"
    /\ last.prehist.ended
    /\ last.prehist.duration > Self.threshold
    /\ hist[last.inst].duration <= Self.threshold
    /\ Self.timer > 0
    /\ Logged = 0
    /\ Len(log) = 1


(* The callback invocations instance i has made. *)
CallsOf(i) == Len(SelectSeq(calls, LAMBDA c : IsOf(i, c)))

(* Instance i's fields and output are what its own calls made them. *)
OwnCycle(i) ==
    /\ sentinel[i].timer = hist[i].started_at
    /\ sentinel[i].total_time = hist[i].duration
    /\ RecordsOf(i) = hist[i].over
    /\ CallsOf(i) =
          IF sentinel[i].on_exceed_callback # NoneStr THEN hist[i].over ELSE 0

(* C12: with cycles interleaved on independent instances, every instance's *)
(* elapsed is its own end instant minus its own start instant, its log and *)
(* callback decisions depend on that value only, and a step on one         *)
(* instance leaves every other instance's fields and output as they were.  *)
C12_Isolation ==
    [][ /\ \A j \in DOMAIN sentinel :
              j # last'.inst =>
                  /\ sentinel'[j] = sentinel[j]
                  /\ sentinel'[j].name \in {DEFAULT_TIMER_NAME, IsoFunc(j)}
                  /\ RecordsOf(j)' = RecordsOf(j)
                  /\ CallsOf(j)' = CallsOf(j)
        /\ \A i \in DOMAIN sentinel : OwnCycle(i)' ]_vars

(* Two cycles overlapped on two instances: the second started before the   *)
(* first ended; the first was over its threshold and logged, the second    *)
(* was not and did not.                                                    *)
C12_Witness ==
    /\ DOMAIN sentinel = {1, 2}
    /\ hist[1].ended /\ hist[2].ended
    /\ sentinel[1].timer < sentinel[2].timer
    /\ sentinel[2].timer < sentinel[1].timer + sentinel[1].total_time
    /\ sentinel[1].total_time > sentinel[1].threshold
    /\ sentinel[2].total_time <= sentinel[2].threshold
    /\ RecordsOf(1) = 1
    /\ RecordsOf(2) = 0


---------------------------------------------------------------------------
(* Overlapping invocations through one shared instance. *)

UsageErrors == {Raise(NotStarted), Raise(NotEnded)}

(* C13 as claimed: when invocations of one async wrapped function sharing  *)
(* a Sentinel overlap, every invocation completes with its own wrapped     *)
(* result and none raises 'Timer not started' or 'Timer not ended'.        *)
C13_OwnResult ==
    \A t \in DOMAIN task :
        Completed(t) =>
            /\ task[t].result = task[t].work
            /\ task[t].result \notin UsageErrors

(* C13 as amended: every overlapping invocation completes with its own     *)
(* wrapped result, never another invocation's, except that an invocation   *)
(* in whose cleanup the on_exceed_callback fails completes with the        *)
(* callback's failure; none raises a usage error.                          *)
C13_OwnResultUnlessCallbackFails ==
    \A t \in DOMAIN task :
        Completed(t) =>
            /\ task[t].result =
                  IF CallbackFailed(t) THEN Raise(CallbackError)
                  ELSE task[t].work
            /\ task[t].result \notin UsageErrors

(* Invocation 2 began while invocation 1 was running and returned v2       *)
(* before invocation 1 returned v1.                                        *)
C13_Witness ==
    /\ DOMAIN task = SharedTasks
    /\ last.op = "async_return" /\ last.task = 1
    /\ Completed(1) /\ Completed(2)
    /\ task[1].began < task[2].began
    /\ task[1].result = Return("v1")
    /\ task[2].result = Return("v2")


---------------------------------------------------------------------------
(* The last step ended an async invocation by cancellation. *)
Cancelled ==
    /\ last.op = "async_return"
    /\ task[last.task].work = Raise(CancelledError)

(* The start() of the last step's caller was the latest start() of the     *)
(* instance, and the time from it to the end() of the last step.           *)
OwnStart == last.prehist.started_at = task[last.task].began
Accrued == hist[last.inst].duration

(* C14 as claimed: when an async wrapped invocation is cancelled at its    *)
(* suspension point, end() and then report() still run exactly once,       *)
(* elapsed is the time accrued from its start() to the abort, the log and  *)
(* callback decision is made on it, and the cancellation propagates to     *)
(* the caller.                                                             *)
C14_CancelledStillReported ==
    Cancelled =>
        /\ Steps(last.task) = <<"start", "call", "raise", "end", "report">>
        /\ OwnStart
        /\ Self.total_time = Accrued
        /\ Logged = (IF Accrued > Self.threshold THEN 1 ELSE 0)
        /\ Called = (IF Accrued > Self.threshold
                        /\ Self.on_exceed_callback # NoneStr THEN 1 ELSE 0)
        /\ Observed = Raise(CancelledError)

(* C14 as amended: the same, except that when the on_exceed_callback fails *)
(* in that report() the callback's failure reaches the caller in place of  *)
(* the cancellation.                                                       *)
C14_CancelledUnlessCallbackFails ==
    Cancelled =>
        /\ Steps(last.task) = <<"start", "call", "raise", "end", "report">>
        /\ OwnStart
        /\ Self.total_time = Accrued
        /\ Logged = (IF Accrued > Self.threshold THEN 1 ELSE 0)
        /\ Called = (IF Accrued > Self.threshold
                        /\ Self.on_exceed_callback # NoneStr THEN 1 ELSE 0)
        /\ Observed = IF CallbackFailed(last.task) THEN Raise(CallbackError)
                      ELSE Raise(CancelledError)

(* An invocation on a reused instance was cancelled over threshold: the    *)
(* record was logged, the callback was invoked and the cancellation        *)
(* reached the caller.                                                     *)
C14_Witness ==
    /\ Cancelled
    /\ last.prehist.ended
    /\ task[last.task].began > 0
    /\ Accrued > Self.threshold
    /\ Logged = 1
    /\ Called = 1
    /\ Observed = Raise(CancelledError)


---------------------------------------------------------------------------
(* C15: no sequence of start(), end(), report(), with-blocks and wrapped   *)
(* invocations modifies what construction fixed: execution_id, threshold,  *)
(* keyword, level, callback and callback_args keep their constructed       *)
(* values, and a non-empty name given at construction is never replaced by *)
(* a wrapped function's name.                                              *)
C15_ConstructedValuesKept ==
    \A i \in DOMAIN sentinel :
        /\ sentinel[i].execution_id = hist[i].built.execution_id
        /\ sentinel[i].threshold = hist[i].built.threshold
        /\ sentinel[i].on_exceed_keyword = hist[i].built.on_exceed_keyword
        /\ sentinel[i].on_exceed_level = hist[i].built.on_exceed_level
        /\ sentinel[i].on_exceed_callback = hist[i].built.on_exceed_callback
        /\ sentinel[i].callback_args = hist[i].built.callback_args
        /\ ~FalsyStr(hist[i].name_arg) => sentinel[i].name = hist[i].name_arg

(* A wrapper of an instance constructed with the name "task" and custom    *)
(* values was invoked, ran over threshold and logged.                      *)
C15_Witness ==
    /\ last.op = "async_return"
    /\ hist[last.inst].name_arg = "task"
    /\ hist[last.inst].built.on_exceed_keyword = "SLOW"
    /\ task[last.task].func = "g"
    /\ Logged = 1
    /\ Called = 1


---------------------------------------------------------------------------
(* Construction with every kind of name argument: none, empty, non-empty.  *)
ArgsConstruct ==
    { a \in Args : /\ a.threshold = 1
                   /\ a.callback = NoneStr
                   /\ a.style.keyword = DEFAULT_KEYWORD }

InitConstruct == InitWith({1}, {1}, ArgsConstruct)

SpecConstruct == InitConstruct /\ [][Next]_vars

(* No method of any instance has been called yet. *)
Constructed == last.op = "init"

(* C16: after construction the name is 'TimerSentinel' when no name or an  *)
(* empty name was supplied and the supplied name otherwise, and both the   *)
(* start mark and the elapsed value are absent.                            *)
C16_AfterConstruction ==
    Constructed =>
        \A i \in DOMAIN sentinel :
            /\ sentinel[i].name =
                   (IF hist[i].name_arg \in {NoneStr, ""}
                       THEN "TimerSentinel" ELSE hist[i].name_arg)
            /\ sentinel[i].timer = None
            /\ sentinel[i].total_time = None

(* An instance constructed with the empty string as its name. *)
C16_Witness ==
    /\ Constructed
    /\ hist[1].name_arg = ""
    /\ sentinel[1].name = "TimerSentinel"


---------------------------------------------------------------------------
(* The last step is a report() issued in an open cycle: after a start()    *)
(* of the instance and before the end() that follows it.                   *)
OpenCycle == last.op = "report" /\ last.prehist.open

(* C17 (as stated): in every measurement cycle, the second and later ones  *)
(* on a reused instance included, a report() issued after the cycle's      *)
(* start() and before its end() fails with 'Timer not ended' and reports   *)
(* nothing from an earlier cycle.                                          *)
C17_OpenCycleReportFails ==
    OpenCycle => /\ last.err = NotEnded
                 /\ Logged = 0
                 /\ Called = 0

(* C17 (amended): a report() issued after a cycle's start() and before its *)
(* end() fails with 'Timer not ended' exactly when no end() has succeeded  *)
(* on the instance yet; start() replaces the start mark only, so in later  *)
(* cycles that report() does not fail with it and decides on the elapsed   *)
(* value of the most recent end().                                         *)
C17_OpenCycleReportFailsInFirstCycleOnly ==
    OpenCycle =>
        /\ Pre.timer = last.prehist.started_at
        /\ last.err = NotEnded <=> ~last.prehist.ended
        /\ last.prehist.ended =>
              /\ Pre.total_time = last.prehist.duration
              /\ Logged = (IF last.prehist.duration > Self.threshold
                              THEN 1 ELSE 0)

(* A report() in the open second cycle logged the first cycle's elapsed. *)
C17_Witness ==
    /\ OpenCycle
    /\ last.prehist.ended
    /\ last.prehist.started_at > last.prehist.duration
    /\ last.err = NoErr
    /\ Logged = 1


---------------------------------------------------------------------------
(* The last step is a report() called again: a report() has already found  *)
(* the elapsed value since the latest end(), and no start() or end() was   *)
(* called in between.                                                      *)
ReportedAgain ==
    /\ last.op = "report"
    /\ last.prehist.decided # None
    /\ ~last.prehist.open

(* C18: report() changes none of start mark, elapsed and name; so a        *)
(* report() called again after end(), with no start() or end() in between, *)
(* decides on the same elapsed value as the report() before it and decides *)
(* the same: one more log record when elapsed > threshold, none otherwise. *)
C18_ReportKeepsState ==
    /\ ReportCalled =>
          /\ Self.total_time = ReportedElapsed
          /\ Self.name = Pre.name
          /\ Self.timer = Pre.timer
    /\ ReportedAgain =>
          /\ Pre.total_time = last.prehist.duration
          /\ Logged = last.prehist.decided
          /\ Logged = (IF Pre.total_time > Self.threshold THEN 1 ELSE 0)

(* A second report() of the same cycle emitted a duplicate of the record   *)
(* that the first one emitted.                                             *)
C18_Witness ==
    /\ ReportedAgain
    /\ Logged = 1
    /\ Len(log) = 2
    /\ log[1] = log[2]


---------------------------------------------------------------------------
(* The time between the entry of the last step's caller into its wrapper   *)
(* and the end() of the last step: the time from the caller's start() to   *)
(* the latest start(), then the time from the latest start() to end().     *)
OwnDuration ==
    (last.prehist.started_at - task[last.task].began) + Accrued

(* C19: when invocations that share one instance overlap, the elapsed that *)
(* an invocation's end() computes is measured from the latest start() of   *)
(* any of them, so it is never longer than the invocation's own duration   *)
(* and is shorter when another invocation started after it; the decision   *)
(* to log is made on that elapsed. Hence (witness) an invocation whose own *)
(* duration exceeds the threshold can finish with no record and no         *)
(* callback.                                                               *)
C19_ElapsedSinceLatestStart ==
    last.op = "async_return" =>
        /\ Pre.timer = last.prehist.started_at
        /\ task[last.task].began <= Pre.timer
        /\ Self.total_time = Accrued
        /\ Self.total_time <= OwnDuration
        /\ ~OwnStart => Self.total_time < OwnDuration
        /\ Logged = (IF Self.total_time > Self.threshold THEN 1 ELSE 0)

(* Invocation 1 started, invocation 2 started and replaced the start mark, *)
(* invocation 1 finished: it ran longer than the threshold, yet nothing    *)
(* was logged and the callback that is set was not invoked.                *)
C19_Witness ==
    /\ DOMAIN task = SharedTasks
    /\ last.op = "async_return" /\ last.task = 1
    /\ task[2].pc = "async"
    /\ task[1].began < task[2].began
    /\ Pre.timer = task[2].began
    /\ OwnDuration > Self.threshold
    /\ Self.total_time <= Self.threshold
    /\ Self.on_exceed_callback # NoneStr
    /\ Logged = 0
    /\ Called = 0


---------------------------------------------------------------------------
(* C20: in the async wrapper the only point where another task runs is the *)
(* await of the wrapped work. Name assignment and start() are one step:    *)
(* after it the name is the function's (when none was given) and the start *)
(* mark is the caller's entry instant. end() and report() are one step:    *)
(* the elapsed that report() evaluates, and writes in its record, is the   *)
(* one the end() of the same step computed from the start mark that step   *)
(* found, whatever elapsed another invocation had left in the instance.    *)
C20_AtomicSteps ==
    /\ last.op = "async_call" =>
          /\ last.ev \in {<<"name", "start", "call">>, <<"start", "call">>}
          /\ Pre.use_func_name => Self.name = task[last.task].func
          /\ hist[last.inst].started_at = task[last.task].began
          /\ Self.timer = task[last.task].began
    /\ last.op = "async_return" =>
          /\ last.ev[2] = "end" /\ last.ev[3] = "report"
          /\ Pre.timer = last.prehist.started_at
          /\ ReportedElapsed = Accrued
          /\ Logged = (IF Accrued > Self.threshold THEN 1 ELSE 0)
          /\ Logged = 1 => log[Len(log)].msg.elapsed = Accrued

(* Invocation 1 finished while invocation 2 was awaiting its work, after   *)
(* an earlier invocation had left another elapsed value in the instance:   *)
(* the record carries the elapsed of invocation 1's own end().             *)
C20_Witness ==
    /\ DOMAIN task = SharedTasks
    /\ last.op = "async_return" /\ last.task = 1
    /\ task[2].pc = "async"
    /\ Pre.total_time # None
    /\ Pre.total_time <= Self.threshold
    /\ Logged = 1
    /\ log[Len(log)].msg.elapsed = Self.total_time
    /\ log[Len(log)].msg.elapsed # Pre.total_time


---------------------------------------------------------------------------
(* The two wrappers side by side: caller 1 invokes the sync wrapper of     *)
(* instance 1, caller 2 the async wrapper of instance 2; the instances are *)
(* constructed with the same arguments, and caller 2 repeats every         *)
(* invocation of caller 1 (same function, same instants, same outcome)     *)
(* before time passes or caller 1 goes on.                                 *)
SyncCaller == 1
AsyncCaller == 2

InitEquiv ==
    /\ InitWith({SyncCaller, AsyncCaller}, {SyncCaller, AsyncCaller}, ArgsSpec)
    /\ sentinel[SyncCaller] = sentinel[AsyncCaller]
    /\ hist[SyncCaller] = hist[AsyncCaller]

(* Both callers have made the same invocations up to the same point. *)
Balanced ==
    \/ task[SyncCaller].pc = "idle" /\ task[AsyncCaller].pc = "idle"
    \/ task[SyncCaller].pc = "sync" /\ task[AsyncCaller].pc = "async"

TickEquiv == Balanced /\ Tick

SyncEnters(func) == Balanced /\ SyncCall(SyncCaller, SyncCaller, func)

AsyncEnters ==
    /\ task[SyncCaller].pc = "sync"
    /\ AsyncCall(AsyncCaller, AsyncCaller, task[SyncCaller].func)

SyncLeaves(work) == Balanced /\ SyncReturn(SyncCaller, work)

AsyncLeaves ==
    /\ task[SyncCaller].pc = "idle"
    /\ AsyncReturn(AsyncCaller, task[SyncCaller].work)

NextEquiv ==
    \/ TickEquiv
    \/ \E func \in FuncNames : SyncEnters(func)
    \/ AsyncEnters
    \/ \E work \in SyncOutcomes : SyncLeaves(work)
    \/ AsyncLeaves

SpecEquiv == InitEquiv /\ [][NextEquiv]_vars

(* The records instance i has logged and the callback invocations it has   *)
(* made, in order, without the mark of the instance.                       *)
Unmarked(seq) == [k \in DOMAIN seq |-> [seq[k] EXCEPT !.inst = 0]]
LogOf(i) == Unmarked(SelectSeq(log, LAMBDA r : IsOf(i, r)))
CallbacksOf(i) == Unmarked(SelectSeq(calls, LAMBDA c : IsOf(i, c)))

(* C21: the sync and the async wrapper are equivalent in contract: for the *)
(* same configuration and the same non-overlapping sequence of invocations *)
(* with the same durations and outcomes, both make the same sequence of    *)
(* name assignment, start, end, report, log and callback events, leave the *)
(* same start mark, elapsed and name, emit the same records and callback   *)
(* invocations, and give each caller the same result or failure.           *)
C21_SyncAsyncEquivalent ==
    (DOMAIN task = {SyncCaller, AsyncCaller} /\ Balanced) =>
        /\ task[SyncCaller].trace = task[AsyncCaller].trace
        /\ sentinel[SyncCaller].timer = sentinel[AsyncCaller].timer
        /\ sentinel[SyncCaller].total_time = sentinel[AsyncCaller].total_time
        /\ sentinel[SyncCaller].name = sentinel[AsyncCaller].name
        /\ LogOf(SyncCaller) = LogOf(AsyncCaller)
        /\ CallbacksOf(SyncCaller) = CallbacksOf(AsyncCaller)
        /\ task[SyncCaller].result = task[AsyncCaller].result
        /\ task[SyncCaller].work = task[AsyncCaller].work

(* After an earlier invocation of f, both wrappers ran g over threshold    *)
(* until it raised: each logged one record naming g, each invoked the      *)
(* callback, and each caller got the failure of g.                         *)
C21_Witness ==
    /\ DOMAIN task = {SyncCaller, AsyncCaller}
    /\ task[SyncCaller].pc = "idle" /\ task[AsyncCaller].pc = "idle"
    /\ last.op = "async_return"
    /\ ~task[SyncCaller].first /\ ~task[AsyncCaller].first
    /\ task[SyncCaller].func = "g"
    /\ task[AsyncCaller].result = Raise(WorkError)
    /\ Len(LogOf(SyncCaller)) = 1 /\ Len(LogOf(AsyncCaller)) = 1
    /\ LogOf(AsyncCaller)[1].msg.name = "g"
    /\ Len(CallbacksOf(AsyncCaller)) = 1
    /\ task[AsyncCaller].trace =
          <<"name", "start", "call", "raise", "end", "report", "log", "callback">>


---------------------------------------------------------------------------
(* The last step is an end() called again: an end() has completed since    *)
(* the latest start() and no start() was called after it.                  *)
EndedAgain ==
    /\ last.op = "end"
    /\ last.prehist.ended
    /\ ~last.prehist.open

(* C22: presence of the transient fields is monotonic: once start() has    *)
(* run the start mark is present, once end() has succeeded elapsed is      *)
(* present, and elapsed present implies start mark present. Hence end()    *)
(* raises 'Timer not started' only before the first start(), report()      *)
(* raises 'Timer not ended' only before the first successful end(), and a  *)
(* second end() without a start() in between succeeds and overwrites       *)
(* elapsed with the time since the most recent start().                    *)
C22_PresenceMonotonic ==
    /\ \A i \in DOMAIN sentinel :
          /\ hist[i].started <=> sentinel[i].timer # None
          /\ hist[i].ended <=> sentinel[i].total_time # None
          /\ sentinel[i].total_time # None => sentinel[i].timer # None
    /\ Acted =>
          /\ last.err = NotStarted <=> (EndCalled /\ ~last.prehist.started)
          /\ last.err = NotEnded <=>
                (ReportCalled /\ ~last.prehist.ended /\ ~EndCalled)
    /\ EndedAgain =>
          /\ last.err = NoErr
          /\ Self.timer = last.prehist.started_at
          /\ Self.total_time = Accrued
          /\ Self.total_time >= Pre.total_time

(* A second end() with no start() since the first one replaced elapsed by  *)
(* a longer time, measured from the same start mark.                       *)
C22_Witness ==
    /\ EndedAgain
    /\ last.err = NoErr
    /\ Self.timer = Pre.timer
    /\ Pre.total_time # None
    /\ Self.total_time > Pre.total_time

====
